---- MODULE Spec2Model ----
(***************************************************************************)
(* Model of the hybrid CPU/GPU matrix multiplication engine                *)
(* (facet-core/src/gpu/matmul.rs) and of the n-dimensional array core.     *)
(*                                                                         *)
(* f32 elements are modelled as integers.  A Rust slice is modelled as a   *)
(* sequence; a sub-slice `&s[a..]` as the pair (s, a) of the underlying    *)
(* sequence and its start, so that element p of the sub-slice is           *)
(* s[a + p + 1].                                                           *)
(***************************************************************************)
EXTENDS Integers, Sequences, FiniteSets, TLC

\* ------------------------------------------------------------------ bounds
\* inner dimension K ranges over 0..MaxK
MaxK == 2
\* arrays are filled from a seed in 1..MaxSeed
MaxSeed == 2
\* number of successive matmul calls on the same buffers
MaxCalls == 2
\* arrays have at most MaxRank axes of 1..MaxDim elements, MaxSpan in all
MaxRank == 3
MaxDim == 3
MaxSpan == 12
\* number of operations applied to an array after its construction
MaxOps == 2

\* ------------------------------------------------------- program constants
LOCAL_SIZE_X == 32
LOCAL_SIZE_Y == 16
ROW_SPLIT_THRESHOLD == 512

VARIABLES
    m, k, n,      \* the [m, k, n] argument of matmul_f32_impl
    in0, in1,     \* the input slices
    out,          \* the caller's output slice
    env,          \* what the platform provides: "ok", "noexec", "noshader", "nopipe"
    pipe,         \* state of the lazy static GEPP_PIPE: "uninit", "running"
                  \* (its initialiser runs), "ready", "poisoned"
    builds,       \* number of compute pipelines built so far; the pipeline
                  \* built by the i-th build is instance i
    inst,         \* the pipeline instance the current call holds (0: none)
    used,         \* per row-chunk: the pipeline instance it dispatched on
    ppc,          \* position of a concurrent call of another thread
    pinst,        \* the pipeline instance the concurrent call holds (0: none)
    pc,           \* position of the caller inside matmul_f32_impl
    result,       \* outcome of the last finished call
    calls,        \* number of calls started
    cpc,          \* per row-chunk: position inside the closure / gepp
    gpu,          \* per row-chunk: state of the submitted GPU work and its fence
    cbuf,         \* per row-chunk: contents of the GPU output buffer c_buffer
    steps,        \* per row-chunk: the steps of gepp taken so far, in order
    oob,          \* an unchecked read went outside its slice during this call
    stale,        \* content of out when the current call was entered
    earlier,      \* content of out when the first call returned Ok
    shape, values,    \* the array: its dimensions and its buffer
    aerr,             \* outcome of the last array operation
    op, arg,          \* the last array operation and the values passed to it
    nops,             \* number of operations applied to the array
    bshape, bvalues,  \* right operand of matmul
    cshape, cvalues   \* output array of matmul

hist == <<stale, earlier>>
held == <<inst, used>>
peer == <<ppc, pinst>>
gvars == <<m, k, n, in0, in1, out, env, pipe, builds, pc, result, calls,
           cpc, gpu, cbuf, steps, oob, hist, held, peer>>
avars == <<shape, values, aerr, op, arg, nops>>
mvars == <<bshape, bvalues, cshape, cvalues>>
vars == <<gvars, avars, mvars>>

Min(a, b) == IF a < b THEN a ELSE b

\* ------------------------------------------------------------------ inputs
\* element p (0-based) of the left and right operand generated from a seed
GenA(seed, p) == ((seed * p + p \div 3 + seed) % 5) - 2
GenB(seed, p) == ((p + 2 * seed + p \div 2) % 4) - 1

MkA(seed, len) == [p \in 1..len |-> GenA(seed, p - 1)]
MkB(seed, len) == [p \in 1..len |-> GenB(seed, p - 1)]
Fill(len, v) == [p \in 1..len |-> v]

\* The calls the model makes: shape, seed of the operands, slack of the
\* buffers beyond the required lengths (negative: too short), stale content
\* of the output buffer, the platform, and whether another thread calls
\* matmul_f32_impl at the same time.
SmallMs == {0, 1, LOCAL_SIZE_X, LOCAL_SIZE_X + 1}
SmallNs == {0, 1, LOCAL_SIZE_Y, LOCAL_SIZE_Y + 1}
BigM == ROW_SPLIT_THRESHOLD + 1
Seeds == {1, 2}

Inputs ==
    \* single-chunk calls around the tile sizes
    [m : SmallMs, k : 0..MaxK, n : SmallNs, seed : Seeds,
     ea : {0}, eo : {0, 1}, env : {"ok"}, peer : {FALSE}]
    \cup
    \* row-split calls
    [m : {BigM}, k : 0..MaxK, n : {1}, seed : {1},
     ea : {0, 1}, eo : {0, 1}, env : {"ok"}, peer : {FALSE}]
    \cup
    [m : {BigM}, k : {1}, n : {0}, seed : {1},
     ea : {0}, eo : {0}, env : {"ok"}, peer : {FALSE}]
    \cup
    \* row-split calls whose chunks reach the GPU tiles
    [m : {BigM + LOCAL_SIZE_X}, k : {1}, n : {LOCAL_SIZE_Y + 1}, seed : {1},
     ea : {0}, eo : {0}, env : {"ok"}, peer : {FALSE}]
    \cup
    \* an output buffer longer by a whole chunk
    [m : {BigM}, k : {1}, n : {1}, seed : {1},
     ea : {0}, eo : {ROW_SPLIT_THRESHOLD}, env : {"ok"}, peer : {FALSE}]
    \cup
    \* a caller that breaks the length contract, failing platforms, and a
    \* call of another thread running at the same time
    [m : {1, BigM}, k : {1}, n : {1}, seed : {1},
     ea : {-1, 0}, eo : {0}, env : {"ok", "noexec", "noshader", "nopipe"},
     peer : BOOLEAN]

\* -------------------------------------------------------------- geometry
\* matmul_f32_impl: the row-split branch is taken
Split == m > ROW_SPLIT_THRESHOLD

\* chunk size handed to par_chunks_mut
ChunkSize == n * ROW_SPLIT_THRESHOLD

\* number of gepp calls of one matmul_f32_impl call
NumChunks ==
    IF Split THEN (Len(out) + ChunkSize - 1) \div ChunkSize ELSE 1

\* start and length of chunk subi's slice of out (subi is 0-based)
ChunkOff(subi) == IF Split THEN subi * ChunkSize ELSE 0
ChunkLen(subi) ==
    IF Split THEN Min(ChunkSize, Len(out) - ChunkOff(subi)) ELSE Len(out)

\* `offset`: first row of chunk subi
RowOffset(subi) == IF Split THEN subi * ROW_SPLIT_THRESHOLD ELSE 0

\* the m passed to gepp
ChunkM(subi) == IF Split THEN ChunkLen(subi) \div n ELSE m

\* the sub-slice that starts at the row number, not at its first element
In0StartAtRow(subi) == RowOffset(subi)

\* start of the sub-slice of in0 passed to gepp
In0Start(subi) == RowOffset(subi) * k

\* rows and columns covered by the dispatched workgroups
GridRows(mc) == (mc \div LOCAL_SIZE_X) * LOCAL_SIZE_X
GridCols == (n \div LOCAL_SIZE_Y) * LOCAL_SIZE_Y

\* ------------------------------------------------------------ arithmetic
\* Values an out-of-bounds unchecked read may produce
Garbage == {-1, 1}

\* at(): element i*cols+j of the slice (values, base), read without a
\* bounds check; g is what the read yields when it is outside the slice
at(vals, base, i, cols, j, g) ==
    LET p == base + i * cols + j
    IN IF p < Len(vals) THEN vals[p + 1] ELSE g

\* the inner loop `for l in 0..k { val += at(in0,i,k,l) * at(in1,l,n,j) }`
RECURSIVE ValLoop(_, _, _, _, _, _)
ValLoop(base, i, j, l, val, g) ==
    IF l >= k THEN val
    ELSE ValLoop(base, i, j, l + 1,
                 val + at(in0, base, i, k, l, g) * at(in1, 0, l, n, j, g), g)

\* some read of rows lo..hi-1 of the slice (in0, base) is outside in0
ReadsOutside(base, lo, hi) ==
    /\ lo < hi
    /\ k > 0
    /\ base + hi * k > Len(in0)

\* buf with the elements from offset off on replaced by those of new
Splice(buf, off, new) ==
    SubSeq(buf, 1, off) \o new \o SubSeq(buf, off + Len(new) + 1, Len(buf))

\* ---------------------------------------------------------------- state
\* no array is in use
ArrayIdle ==
    /\ shape = << >>
    /\ values = <<0>>
    /\ aerr = "ok"
    /\ op = "none"
    /\ arg = << >>
    /\ nops = 0

MatmulIdle ==
    /\ bshape = << >>
    /\ bvalues = <<0>>
    /\ cshape = << >>
    /\ cvalues = <<0>>

Init ==
    /\ ArrayIdle
    /\ MatmulIdle
    /\ \E inp \in Inputs :
        /\ m = inp.m
        /\ k = inp.k
        /\ n = inp.n
        /\ in0 = MkA(inp.seed, inp.m * inp.k + inp.ea)
        /\ in1 = MkB(inp.seed, inp.k * inp.n)
        /\ out = Fill(inp.m * inp.n + inp.eo, 7)
        /\ env = inp.env
        /\ pipe = "uninit"
        /\ builds = 0
        /\ pc = "idle"
        /\ result = "none"
        /\ calls = 0
        /\ cpc = << >>
        /\ gpu = << >>
        /\ cbuf = << >>
        /\ steps = << >>
        /\ oob = FALSE
        /\ stale = << >>
        /\ earlier = << >>
        /\ inst = 0
        /\ used = << >>
        /\ ppc = IF inp.peer THEN "start" ELSE "none"
        /\ pinst = 0

Chunks == DOMAIN cpc

\* the call ends with outcome r
Return(r) ==
    /\ pc' = "idle"
    /\ result' = r

\* ------------------------------------------------------- matmul_f32_impl
\* the three assertions on the lengths of the slices
LengthsOk ==
    /\ m * k <= Len(in0)
    /\ n * k <= Len(in1)
    /\ m * n <= Len(out)

\* the lookup that never finds the executor missing
ExecutorNeverAbsent == FALSE

\* EXECUTOR.as_ref() is None
ExecutorAbsent == env = "noexec"

\* entry: the three length assertions, then the executor lookup
Enter ==
    /\ pc = "idle"
    /\ calls < MaxCalls
    /\ calls' = calls + 1
    /\ cpc' = << >>
    /\ gpu' = << >>
    /\ cbuf' = << >>
    /\ steps' = << >>
    /\ oob' = FALSE
    /\ IF ~LengthsOk
       THEN Return("panic")
       ELSE IF ExecutorAbsent
       THEN Return("NoExecutor")
       ELSE pc' = "pipe" /\ result' = "none"
    /\ stale' = out
    /\ inst' = 0
    /\ used' = << >>
    /\ UNCHANGED <<peer, earlier, m, k, n, in0, in1, out, env, pipe, builds>>

\* the Once that takes a second initialiser while the first is running
OnceVacantOrRunning == pipe \in {"uninit", "running"}

\* the Once of the lazy static has not been entered by any thread
OnceVacant == pipe = "uninit"

\* what a thread that dereferences GEPP_PIPE does next: it has the value,
\* runs the initialiser, waits for the thread that runs it, or panics on a
\* poisoned Once
Arrive ==
    IF pipe = "ready" THEN "got"
    ELSE IF OnceVacant THEN "init"
    ELSE IF pipe = "running" THEN "wait"
    ELSE "panic"

\* the initialiser of GEPP_PIPE cannot build the pipeline: no shader, or
\* ComputePipeline::new fails
BuildFails == env # "ok"

\* GEPP_PIPE.clone(): the dereference of the lazy static
GetPipe ==
    /\ pc = "pipe"
    /\ pipe' = IF Arrive = "init" THEN "running" ELSE pipe
    /\ inst' = IF Arrive = "got" THEN builds ELSE inst
    /\ IF Arrive = "panic"
       THEN Return("panic")
       ELSE pc' = (IF Arrive = "got" THEN "dispatch" ELSE Arrive)
            /\ UNCHANGED result
    /\ UNCHANGED <<peer, used, hist, m, k, n, in0, in1, out, env, builds, calls,
                   cpc, gpu, cbuf, steps, oob>>

\* the initialiser of GEPP_PIPE, run by the calling thread: it builds the
\* pipeline, or panics, which leaves the static poisoned
BuildPipe ==
    /\ pc = "init"
    /\ IF BuildFails
       THEN /\ Return("panic")
            /\ pipe' = "poisoned"
            /\ UNCHANGED <<builds, inst>>
       ELSE /\ pc' = "dispatch"
            /\ pipe' = "ready"
            /\ builds' = builds + 1
            /\ inst' = builds + 1
            /\ UNCHANGED result
    /\ UNCHANGED <<peer, used, hist, m, k, n, in0, in1, out, env, calls,
                   cpc, gpu, cbuf, steps, oob>>

\* the thread that waited for the running initialiser goes on with the
\* value, or panics when the initialiser has panicked
AwaitPipe ==
    /\ pc = "wait"
    /\ pipe # "running"
    /\ IF pipe = "ready"
       THEN pc' = "dispatch" /\ inst' = builds /\ UNCHANGED result
       ELSE Return("panic") /\ UNCHANGED inst
    /\ UNCHANGED <<peer, used, hist, m, k, n, in0, in1, out, env, pipe, builds,
                   calls, cpc, gpu, cbuf, steps, oob>>

\* a call of matmul_f32_impl by another thread, on buffers of its own, as
\* far as it touches the process-wide statics: its entry up to the executor
\* lookup
PeerEnter ==
    /\ ppc = "start"
    /\ ppc' = IF ExecutorAbsent THEN "returned" ELSE "pipe"
    /\ UNCHANGED <<pinst, pipe, builds>>

\* its GEPP_PIPE.clone()
PeerGetPipe ==
    /\ ppc = "pipe"
    /\ pipe' = IF Arrive = "init" THEN "running" ELSE pipe
    /\ pinst' = IF Arrive = "got" THEN builds ELSE pinst
    /\ ppc' = Arrive
    /\ UNCHANGED builds

\* the initialiser of GEPP_PIPE, run by the other thread
PeerBuildPipe ==
    /\ ppc = "init"
    /\ IF BuildFails
       THEN /\ ppc' = "panic"
            /\ pipe' = "poisoned"
            /\ UNCHANGED <<builds, pinst>>
       ELSE /\ ppc' = "got"
            /\ pipe' = "ready"
            /\ builds' = builds + 1
            /\ pinst' = builds + 1

\* the other thread has waited for the running initialiser
PeerAwaitPipe ==
    /\ ppc = "wait"
    /\ pipe # "running"
    /\ IF pipe = "ready"
       THEN ppc' = "woken" /\ pinst' = builds
       ELSE ppc' = "panic" /\ UNCHANGED pinst
    /\ UNCHANGED <<pipe, builds>>

\* what the steps of the other thread leave alone
PeerFrame ==
    UNCHANGED <<held, hist, m, k, n, in0, in1, out, env, pc, result, calls,
                cpc, gpu, cbuf, steps, oob>>

\* the branch on m > ROW_SPLIT_THRESHOLD: one gepp per chunk of out, or one
\* gepp on the whole of out
Dispatch ==
    /\ pc = "dispatch"
    /\ IF Split /\ ChunkSize = 0
       THEN Return("panic") /\ UNCHANGED <<cpc, gpu, cbuf, steps, used>>
       ELSE /\ pc' = "running"
            /\ cpc' = [c \in 1..NumChunks |-> "start"]
            /\ gpu' = [c \in 1..NumChunks |-> "idle"]
            /\ cbuf' = [c \in 1..NumChunks |-> << >>]
            /\ steps' = [c \in 1..NumChunks |-> << >>]
            /\ used' = [c \in 1..NumChunks |-> 0]
            /\ UNCHANGED result
    /\ UNCHANGED <<peer, inst, hist, m, k, n, in0, in1, out, env, pipe, builds, calls, oob>>

\* the cleanup after the chunks, and the return of res
Finish ==
    /\ pc = "running"
    /\ \A c \in Chunks : cpc[c] \in {"done", "panic"}
    /\ Return(IF \E c \in Chunks : cpc[c] = "panic" THEN "panic" ELSE "Ok")
    /\ earlier' = IF calls = 1 /\ \A c \in Chunks : cpc[c] = "done"
                  THEN out ELSE earlier
    /\ UNCHANGED <<peer, held, stale, m, k, n, in0, in1, out, env, pipe, builds, calls,
                   cpc, gpu, cbuf, steps, oob>>

\* ------------------------------------------------------------------ gepp
\* cell q of a chunk of mc rows lies in a tile the shader invocations cover
InGrid(mc, q) ==
    /\ GridCols > 0
    /\ q \div n < GridRows(mc)
    /\ q % n < GridCols

\* cell q lies in the band of the first CPU loop ("last columns"): rows
\* offset_n .. m, every column
InLastCols(mc, q) ==
    /\ n > 0
    /\ q \div n >= mc - (mc % LOCAL_SIZE_X)
    /\ q \div n < mc

\* cell q lies in the band of the second CPU loop ("last rows"): every row,
\* columns offset_p .. n
InLastRows(mc, q) ==
    /\ n > 0
    /\ q \div n < mc
    /\ q % n >= n - (n % LOCAL_SIZE_Y)

\* the merge that overwrites instead of adding
MergeCellOverwrite(v, content) == content

\* `*v += content[offset + i]`
MergeCell(v, content) == v + content

\* the wait that returns without looking at the fence
FenceIgnored(c) == TRUE

\* the fence of chunk c has been signalled
FenceSignaled(c) == gpu[c] = "signaled"

Step(c, from, to, name) ==
    /\ pc = "running"
    /\ c \in Chunks
    /\ cpc[c] = from
    /\ cpc' = [cpc EXCEPT ![c] = to]
    /\ steps' = [steps EXCEPT ![c] = Append(@, name)]

\* the closure of the row-split branch (offset, m, the sub-slice of in0) and
\* gepp up to then_signal_fence_and_flush: the three buffers are allocated,
\* c_buffer zero-filled over the length of out, and the dispatch is submitted
Submit(c) ==
    /\ pc = "running"
    /\ c \in Chunks
    /\ cpc[c] = "start"
    /\ IF Split /\ In0Start(c - 1) > Len(in0)
       THEN /\ cpc' = [cpc EXCEPT ![c] = "panic"]
            /\ UNCHANGED <<gpu, cbuf, steps, used>>
       ELSE /\ cpc' = [cpc EXCEPT ![c] = "submitted"]
            /\ used' = [used EXCEPT ![c] = inst]
            /\ gpu' = [gpu EXCEPT ![c] = "pending"]
            /\ cbuf' = [cbuf EXCEPT ![c] = Fill(ChunkLen(c - 1), 0)]
            /\ steps' = [steps EXCEPT ![c] = Append(@, "submit")]
    /\ UNCHANGED <<peer, inst, hist, m, k, n, in0, in1, out, env, pipe, builds, pc, result, calls, oob>>

\* the shader runs on the GPU timeline: every invocation (i, j) of the grid
\* writes C[i * N + j]
GpuRun(c) ==
    /\ pc = "running"
    /\ c \in Chunks
    /\ gpu[c] = "pending"
    /\ LET mc == ChunkM(c - 1)
           base == In0Start(c - 1)
           wild == GridCols > 0 /\ ReadsOutside(base, 0, GridRows(mc))
       IN \E g \in (IF wild THEN Garbage ELSE {0}) :
            cbuf' = [cbuf EXCEPT ![c] =
                [p \in 1..Len(@) |->
                    IF InGrid(mc, p - 1)
                    THEN ValLoop(base, (p - 1) \div n, (p - 1) % n, 0, 0, g)
                    ELSE @[p]]]
    /\ gpu' = [gpu EXCEPT ![c] = "signaled"]
    /\ UNCHANGED <<peer, held, hist, m, k, n, in0, in1, out, env, pipe, builds, pc, result, calls,
                   cpc, steps, oob>>

\* the slice of out of chunk c as it is, not zeroed
ZeroedNot(c) ==
    SubSeq(out, ChunkOff(c - 1) + 1, ChunkOff(c - 1) + ChunkLen(c - 1))

\* the slice of out of chunk c after `for_each(|x| *x = 0.0)`
Zeroed(c) == Fill(ChunkLen(c - 1), 0)

\* out.par_iter_mut().for_each(|x| *x = 0.0)
Zero(c) ==
    /\ Step(c, "submitted", "zeroed", "zero")
    /\ out' = Splice(out, ChunkOff(c - 1), Zeroed(c))
    /\ UNCHANGED <<peer, held, hist, m, k, n, in0, in1, env, pipe, builds, pc, result, calls,
                   gpu, cbuf, oob>>

\* cell q lies in the band of the CPU loop called name
InBand(name, mc, q) ==
    IF name = "cols" THEN InLastCols(mc, q) ELSE InLastRows(mc, q)

\* one CPU remainder loop, reading rows lo .. hi of in0; a read outside in0
\* yields garbage or kills the task
CpuBand(c, from, to, name, lo, hi) ==
    LET mc == ChunkM(c - 1)
        base == In0Start(c - 1)
        off == ChunkOff(c - 1)
        wild == n > 0 /\ ReadsOutside(base, lo, hi)
    IN \E crash \in (IF wild THEN BOOLEAN ELSE {FALSE}) :
       \E g \in (IF wild /\ ~crash THEN Garbage ELSE {0}) :
          /\ oob' = (oob \/ wild)
          /\ IF crash
             THEN /\ pc = "running"
                  /\ c \in Chunks
                  /\ cpc[c] = from
                  /\ cpc' = [cpc EXCEPT ![c] = "panic"]
                  /\ UNCHANGED <<out, steps>>
             ELSE /\ Step(c, from, to, name)
                  /\ out' = Splice(out, off,
                         [p \in 1..ChunkLen(c - 1) |->
                             IF InBand(name, mc, p - 1)
                             THEN ValLoop(base, (p - 1) \div n, (p - 1) % n,
                                          0, 0, g)
                             ELSE out[off + p]])

\* "last columns": rows offset_n .. m
LastCols(c) ==
    /\ c \in Chunks
    /\ CpuBand(c, "zeroed", "cols", "cols",
               ChunkM(c - 1) - (ChunkM(c - 1) % LOCAL_SIZE_X), ChunkM(c - 1))
    /\ UNCHANGED <<peer, held, hist, m, k, n, in0, in1, env, pipe, builds, pc, result, calls,
                   gpu, cbuf>>

\* "last rows": columns offset_p .. n of every row
LastRows(c) ==
    /\ c \in Chunks
    /\ CpuBand(c, "cols", "rows", "rows",
               0, IF n % LOCAL_SIZE_Y > 0 THEN ChunkM(c - 1) ELSE 0)
    /\ UNCHANGED <<peer, held, hist, m, k, n, in0, in1, env, pipe, builds, pc, result, calls,
                   gpu, cbuf>>

\* finish.wait(None)
Wait(c) ==
    /\ Step(c, "rows", "waited", "wait")
    /\ FenceSignaled(c)
    /\ UNCHANGED <<peer, held, hist, m, k, n, in0, in1, out, env, pipe, builds, pc, result, calls,
                   gpu, cbuf, oob>>

\* c_buffer is read and added into out, row by row
Merge(c) ==
    /\ pc = "running"
    /\ c \in Chunks
    /\ cpc[c] = "waited"
    /\ IF n = 0
       THEN /\ cpc' = [cpc EXCEPT ![c] = "panic"]
            /\ UNCHANGED <<out, steps, cbuf>>
       ELSE /\ cpc' = [cpc EXCEPT ![c] = "done"]
            /\ steps' = [steps EXCEPT ![c] = Append(@, "merge")]
            /\ out' = Splice(out, ChunkOff(c - 1),
                   [p \in 1..ChunkLen(c - 1) |->
                       MergeCell(out[ChunkOff(c - 1) + p], cbuf[c][p])])
            /\ cbuf' = [cbuf EXCEPT ![c] = << >>]
    /\ UNCHANGED <<peer, held, hist, m, k, n, in0, in1, env, pipe, builds, pc, result, calls,
                   gpu, oob>>

Next ==
    \/ Enter /\ UNCHANGED <<avars, mvars>>
    \/ GetPipe /\ UNCHANGED <<avars, mvars>>
    \/ BuildPipe /\ UNCHANGED <<avars, mvars>>
    \/ AwaitPipe /\ UNCHANGED <<avars, mvars>>
    \/ PeerEnter /\ PeerFrame /\ UNCHANGED <<avars, mvars>>
    \/ PeerGetPipe /\ PeerFrame /\ UNCHANGED <<avars, mvars>>
    \/ PeerBuildPipe /\ PeerFrame /\ UNCHANGED <<avars, mvars>>
    \/ PeerAwaitPipe /\ PeerFrame /\ UNCHANGED <<avars, mvars>>
    \/ Dispatch /\ UNCHANGED <<avars, mvars>>
    \/ Finish /\ UNCHANGED <<avars, mvars>>
    \/ \E c \in Chunks : Submit(c) /\ UNCHANGED <<avars, mvars>>
    \/ \E c \in Chunks : GpuRun(c) /\ UNCHANGED <<avars, mvars>>
    \/ \E c \in Chunks : Zero(c) /\ UNCHANGED <<avars, mvars>>
    \/ \E c \in Chunks : LastCols(c) /\ UNCHANGED <<avars, mvars>>
    \/ \E c \in Chunks : LastRows(c) /\ UNCHANGED <<avars, mvars>>
    \/ \E c \in Chunks : Wait(c) /\ UNCHANGED <<avars, mvars>>
    \/ \E c \in Chunks : Merge(c) /\ UNCHANGED <<avars, mvars>>

Spec == Init /\ [][Next]_vars

\* ============================================================ array core
\* span: the product of the dimensions (1 for a scalar)
RECURSIVE Span(_)
Span(dims) == IF dims = << >> THEN 1 ELSE Head(dims) * Span(Tail(dims))

\* row-major strides: the stride of axis i is the product of the later dims
Strides(dims) ==
    [i \in 1..Len(dims) |-> Span(SubSeq(dims, i + 1, Len(dims)))]

\* index(dims, strides, coords): the flat offset, or -1 for IndexOutOfBounds
RECURSIVE Dot(_, _, _)
Dot(a, b, i) == IF i = 0 THEN 0 ELSE Dot(a, b, i - 1) + a[i] * b[i]

Index(dims, strides, coords) ==
    IF Len(coords) # Len(dims) \/ \E i \in 1..Len(dims) : coords[i] >= dims[i]
    THEN -1
    ELSE Dot(coords, strides, Len(dims))

\* the shapes and the value buffers the operations are given
Shapes ==
    {d \in UNION {[1..r -> 1..MaxDim] : r \in 0..MaxRank} : Span(d) <= MaxSpan}

GenV(seed, len) == [p \in 1..len |-> ((seed * p + p \div 2) % 7) + 1]

\* dims without the last axis, and dims in reverse order
DropLast(dims) == IF dims = << >> THEN dims ELSE SubSeq(dims, 1, Len(dims) - 1)
Reverse(dims) == [i \in 1..Len(dims) |-> dims[Len(dims) + 1 - i]]

\* the result of transpose(): the last two axes swapped, the data of every
\* batch of the leading axes reordered to be row-major in the new order
TransposeDims(dims) ==
    LET r == Len(dims)
    IN [i \in 1..r |-> IF i = r - 1 THEN dims[r]
                       ELSE IF i = r THEN dims[r - 1] ELSE dims[i]]

\* the source offset that forgets the batch
TransposeSourceFirstBatch(rows, cols, p) ==
    LET rest == p % (rows * cols)
    IN (rest % rows) * cols + rest \div rows

\* source offset of element p of the transposed buffer; rows x cols is the
\* matrix of one batch before the transposition
TransposeSource(rows, cols, p) ==
    LET t == p \div (rows * cols)
        rest == p % (rows * cols)
        j == rest \div rows
        i == rest % rows
    IN t * rows * cols + i * cols + j

TransposeValues(dims, vals) ==
    LET r == Len(dims)
    IN [p \in 1..Span(dims) |->
           vals[TransposeSource(dims[r - 1], dims[r], p - 1) + 1]]

\* an operation of the array ends: its name, its argument, its outcome
Done(name, a, e) ==
    /\ op' = name
    /\ arg' = a
    /\ aerr' = e
    /\ nops' = nops + 1

NoArray == op = "none" \/ (op = "newWithValues" /\ aerr = "LengthMismatch")

ArrInit ==
    /\ ArrayIdle
    /\ MatmulIdle
    /\ m = 0 /\ k = 0 /\ n = 0
    /\ in0 = << >> /\ in1 = << >> /\ out = << >>
    /\ env = "ok" /\ pipe = "uninit" /\ builds = 0
    /\ pc = "idle" /\ result = "none" /\ calls = 0
    /\ cpc = << >> /\ gpu = << >> /\ cbuf = << >> /\ steps = << >>
    /\ oob = FALSE
    /\ stale = << >> /\ earlier = << >>
    /\ inst = 0 /\ used = << >> /\ ppc = "none" /\ pinst = 0

\* new(shape): a default-initialised buffer of span(shape) elements
New(dims) ==
    /\ NoArray
    /\ shape' = dims
    /\ values' = Fill(Span(dims), 0)
    /\ op' = "new" /\ arg' = << >> /\ aerr' = "ok" /\ nops' = 0

\* newWithValues(shape, values): fails when the length is not the span
NewWithValues(dims, vals) ==
    /\ NoArray
    /\ IF Len(vals) # Span(dims)
       THEN /\ UNCHANGED <<shape, values>>
            /\ aerr' = "LengthMismatch"
       ELSE /\ shape' = dims
            /\ values' = vals
            /\ aerr' = "ok"
    /\ op' = "newWithValues" /\ arg' = vals /\ nops' = 0

\* the length check against the current buffer instead of the span
SetSliceLengthOfBuffer == Len(values)

\* the length set_slice requires: the product of the dimensions
SetSliceLength == Span(shape)

\* setSlice(values): replaces the whole buffer
SetSlice(vals) ==
    /\ ~NoArray
    /\ nops < MaxOps
    /\ IF Len(vals) # SetSliceLength
       THEN UNCHANGED <<shape, values>> /\ Done("setSlice", vals, "LengthMismatch")
       ELSE /\ values' = vals
            /\ UNCHANGED shape
            /\ Done("setSlice", vals, "ok")

\* an element write through getMut(coords)
Write(coords, v) ==
    /\ ~NoArray
    /\ nops < MaxOps
    /\ LET i == Index(shape, Strides(shape), coords)
       IN IF i < 0 \/ i >= Len(values)
          THEN UNCHANGED values /\ Done("getMut", << >>, "IndexOutOfBounds")
          ELSE /\ values' = [values EXCEPT ![i + 1] = v]
               /\ Done("getMut", << >>, "ok")
    /\ UNCHANGED shape

\* reshape(newDims): the shape is replaced, the buffer is not touched
Reshape(dims) ==
    /\ ~NoArray
    /\ nops < MaxOps
    /\ shape' = dims
    /\ UNCHANGED values
    /\ Done("reshape", << >>, "ok")

\* transpose() of a matrix or tensor, the result replacing the array
Transpose ==
    /\ ~NoArray
    /\ nops < MaxOps
    /\ Len(shape) >= 2
    /\ IF Len(values) < Span(shape)
       THEN UNCHANGED <<shape, values>> /\ Done("transpose", << >>, "panic")
       ELSE /\ shape' = TransposeDims(shape)
            /\ values' = TransposeValues(shape, values)
            /\ Done("transpose", << >>, "ok")

\* the coordinates the element writes use: first element, last element, and
\* one past the last on every axis
CoordChoices(dims) ==
    { [i \in 1..Len(dims) |-> 0],
      [i \in 1..Len(dims) |-> dims[i] - 1],
      dims }

ArrNext ==
    \/ \E d \in Shapes : New(d) /\ UNCHANGED <<gvars, mvars>>
    \/ \E d \in Shapes, seed \in 1..MaxSeed, extra \in {0, 1} :
          NewWithValues(d, GenV(seed, Span(d) + extra))
          /\ UNCHANGED <<gvars, mvars>>
    \/ \E seed \in 1..MaxSeed,
          l \in {Span(shape), Span(shape) + 1, Len(values)} :
          SetSlice(GenV(seed, l)) /\ UNCHANGED <<gvars, mvars>>
    \/ \E c \in CoordChoices(shape) : Write(c, 9) /\ UNCHANGED <<gvars, mvars>>
    \/ \E d \in {<<Span(shape)>>, DropLast(shape), Reverse(shape)} :
          Reshape(d) /\ UNCHANGED <<gvars, mvars>>
    \/ Transpose /\ UNCHANGED <<gvars, mvars>>

SpecArray == ArrInit /\ [][ArrNext]_vars

\* ------------------------------------------------- CPU broadcasting matmul
\* the batch axes of an operand: all but its trailing matrix (or vector)
BatchDims(dims) ==
    IF Len(dims) <= 2 THEN << >> ELSE SubSeq(dims, 1, Len(dims) - 2)

\* the trailing M x K of the left operand; a vector is one row
LeftM(dims) == IF Len(dims) = 1 THEN 1 ELSE dims[Len(dims) - 1]
LeftK(dims) == dims[Len(dims)]

\* the trailing K x N of the right operand; a vector is one column
RightK(dims) == IF Len(dims) = 1 THEN dims[1] ELSE dims[Len(dims) - 1]
RightN(dims) == IF Len(dims) = 1 THEN 1 ELSE dims[Len(dims)]

\* the operands can be multiplied: equal inner dimensions, and batches that
\* are equal or of which one is absent or of one slice
Compatible(da, db) ==
    /\ LeftK(da) = RightK(db)
    /\ \/ BatchDims(da) = BatchDims(db)
       \/ Span(BatchDims(da)) = 1
       \/ Span(BatchDims(db)) = 1

\* batch axes of the output: those of the operand that has more of them
OutBatch(da, db) ==
    LET ba == BatchDims(da)
        bb == BatchDims(db)
    IN IF Len(bb) > Len(ba) \/ (Len(bb) = Len(ba) /\ Span(bb) > Span(ba))
       THEN bb ELSE ba

\* shape of the output: the batch, then M unless the left operand is a
\* vector, then N unless the right operand is a vector
OutDims(da, db) ==
    OutBatch(da, db)
    \o (IF Len(da) = 1 THEN << >> ELSE <<LeftM(da)>>)
    \o (IF Len(db) = 1 THEN << >> ELSE <<RightN(db)>>)

\* the batch slice that never advances
BatchSliceFirst(dims, t) == 0

\* the batch slice of an operand used for output slice t: an operand with a
\* single slice is repeated for every t
BatchSlice(dims, t) == IF Span(BatchDims(dims)) = 1 THEN 0 ELSE t

\* the triple loop: cell (i, j) of output slice t, summed over l
RECURSIVE MulCell(_, _, _, _, _, _, _, _)
MulCell(da, va, db, vb, t, i, j, l) ==
    IF l = 0 THEN 0
    ELSE LET kk == LeftK(da)
             ta == BatchSlice(da, t)
             tb == BatchSlice(db, t)
         IN MulCell(da, va, db, vb, t, i, j, l - 1)
            + va[(ta * LeftM(da) + i) * kk + l]
              * vb[(tb * kk + (l - 1)) * RightN(db) + j + 1]

MulValues(da, va, db, vb) ==
    LET mm == LeftM(da)
        nn == RightN(db)
    IN [p \in 1..(Span(OutBatch(da, db)) * mm * nn) |->
           MulCell(da, va, db, vb, (p - 1) \div (mm * nn),
                   ((p - 1) % (mm * nn)) \div nn, (p - 1) % nn, LeftK(da))]

\* the operands of the multiplications: vectors, matrices and tensors, not
\* two vectors
MulShapes == {d \in Shapes : Len(d) >= 1}

GenW(seed, len) == [p \in 1..len |-> ((seed + p + p \div 3) % 5) - 2]

MulInit ==
    /\ m = 0 /\ k = 0 /\ n = 0
    /\ in0 = << >> /\ in1 = << >> /\ out = << >>
    /\ env = "ok" /\ pipe = "uninit" /\ builds = 0
    /\ pc = "idle" /\ result = "none" /\ calls = 0
    /\ cpc = << >> /\ gpu = << >> /\ cbuf = << >> /\ steps = << >>
    /\ oob = FALSE
    /\ stale = << >> /\ earlier = << >>
    /\ inst = 0 /\ used = << >> /\ ppc = "none" /\ pinst = 0
    /\ \E da \in MulShapes, db \in MulShapes, seed \in 1..MaxSeed :
        /\ Len(da) + Len(db) > 2
        /\ shape = da
        /\ values = GenV(seed, Span(da))
        /\ bshape = db
        /\ bvalues = GenW(seed, Span(db))
    /\ cshape = << >>
    /\ cvalues = <<0>>
    /\ aerr = "ok" /\ op = "newWithValues" /\ arg = << >> /\ nops = 0

\* matmul(other, out): the output array takes the shape and the values of
\* the product, or is left untouched with ShapeMismatch
MatMul ==
    /\ op # "matmul"
    /\ IF Compatible(shape, bshape)
       THEN /\ cshape' = OutDims(shape, bshape)
            /\ cvalues' = MulValues(shape, values, bshape, bvalues)
            /\ aerr' = "ok"
       ELSE /\ UNCHANGED <<cshape, cvalues>>
            /\ aerr' = "ShapeMismatch"
    /\ op' = "matmul"
    /\ UNCHANGED <<shape, values, arg, nops, bshape, bvalues>>

MulNext == MatMul /\ UNCHANGED gvars

SpecMatmul == MulInit /\ [][MulNext]_vars

\* ------------------------------------------------------------- properties
\* the cell (i, j) of the product of the matrix stored from element base of
\* in0 (rows of k elements) and the matrix in1: the sum of the first l terms
RECURSIVE RefSum(_, _, _, _)
RefSum(base, i, j, l) ==
    IF l = 0 THEN 0
    ELSE RefSum(base, i, j, l - 1)
         + in0[base + i * k + l] * in1[(l - 1) * n + j + 1]

Finished == pc = "idle" /\ calls > 0

\* C1: after a gepp dispatch on m rows has returned Ok, with its slice of
\* in0 holding all m * K elements, every cell (i, j), i < m, j < N, of its
\* slice of out equals the sum over l of A[i*K+l] * B[l*N+j].
C1_GeppComputesProduct ==
    \A c \in Chunks :
        (cpc[c] = "done" /\ In0Start(c - 1) + ChunkM(c - 1) * k <= Len(in0))
        => \A q \in 0..(ChunkM(c - 1) * n - 1) :
              out[ChunkOff(c - 1) + q + 1]
                  = RefSum(In0Start(c - 1), q \div n, q % n, k)

\* a dispatch with GPU tiles, both remainder bands and their corner has
\* returned, and its result holds a non-zero cell in the tiles and in the corner
C1_Witness ==
    /\ ~Split
    /\ Chunks = {1}
    /\ cpc[1] = "done"
    /\ m = LOCAL_SIZE_X + 1
    /\ n = LOCAL_SIZE_Y + 1
    /\ k > 1
    /\ out[1] # 0
    /\ out[m * n] # 0

\* C2: when a call with M above the row-split threshold returns Ok, every
\* cell (i, j), i < M, j < N, of out equals the sum over l of
\* A[i*K+l] * B[l*N+j] of the whole operands.
C2_RowSplitEqualsProduct ==
    (Finished /\ Split /\ result = "Ok")
    => \A q \in 0..(m * n - 1) : out[q + 1] = RefSum(0, q \div n, q % n, k)

\* a row-split call over two chunks, the second with GPU tiles, has returned Ok
C2_Witness ==
    /\ Finished
    /\ Split
    /\ result = "Ok"
    /\ Cardinality(Chunks) = 2
    /\ n > LOCAL_SIZE_Y
    /\ m > ROW_SPLIT_THRESHOLD + LOCAL_SIZE_X
    /\ out[m * n] # 0

\* sum of the row counts of the chunks 1..c
RECURSIVE RowsUpTo(_)
RowsUpTo(c) == IF c = 0 THEN 0 ELSE RowsUpTo(c - 1) + ChunkM(c - 1)

\* C3: once a call with M above the threshold, whose slices satisfy the
\* length preconditions, has split its rows, every chunk has at most
\* ROW_SPLIT_THRESHOLD rows, no chunk covers a row >= M, the row counts sum
\* to M, and the slices of out are pairwise disjoint.
C3_ChunksPartitionRows ==
    (pc = "running" /\ Split)
    => /\ \A c \in Chunks :
            /\ ChunkM(c - 1) <= ROW_SPLIT_THRESHOLD
            /\ RowOffset(c - 1) + ChunkM(c - 1) <= m
       /\ RowsUpTo(Cardinality(Chunks)) = m
       /\ \A c, d \in Chunks :
            c < d => ChunkOff(c - 1) + ChunkLen(c - 1) <= ChunkOff(d - 1)

\* C4 as claimed: without an executor every finished call returned
\* NoExecutor, whatever slices the caller passed.
C4_NoExecutorAlways ==
    (Finished /\ env = "noexec") => result = "NoExecutor"

\* C4 amended: without an executor, a finished call whose slices satisfy the
\* three length assertions returned NoExecutor; a call whose slices break
\* one of them panicked at the assertion.
C4_NoExecutorWhenLengthsOk ==
    (Finished /\ env = "noexec")
    => result = (IF LengthsOk THEN "NoExecutor" ELSE "panic")

\* a call without executor has returned NoExecutor
C4_Witness ==
    /\ Finished
    /\ env = "noexec"
    /\ LengthsOk
    /\ result = "NoExecutor"

\* C5: when the shader cannot be loaded or the pipeline cannot be built, a
\* finished call (with an executor, on slices of the required lengths)
\* returned the error NoShader and did not panic.
C5_ShaderFailureIsReturned ==
    (Finished /\ LengthsOk /\ env \in {"noshader", "nopipe"})
    => result = "NoShader"

Order == <<"submit", "zero", "cols", "rows", "wait", "merge">>

\* C10: in every chunk's dispatch the steps taken so far are an initial
\* part of: submit, zero out, first remainder band, second remainder band,
\* wait on the fence, merge; and once the wait has returned the GPU work of
\* that chunk has completed.
C10_StepOrder ==
    \A c \in Chunks :
        /\ Len(steps[c]) <= Len(Order)
        /\ steps[c] = SubSeq(Order, 1, Len(steps[c]))
        /\ Len(steps[c]) >= 5 => gpu[c] = "signaled"
        /\ (gpu[c] # "idle") => Len(steps[c]) >= 1

\* a dispatch went through all six steps
C10_Witness ==
    \E c \in Chunks : steps[c] = Order /\ m > LOCAL_SIZE_X /\ n > LOCAL_SIZE_Y

\* C6: whatever operations were applied to an array, the length of its
\* buffer equals the span of its shape.
C6_BufferLengthIsSpan ==
    ~NoArray => Len(values) = Span(shape)

\* C7: a setSlice step given values whose length differs from the span of
\* the array fails with LengthMismatch and changes neither buffer nor shape;
\* given values of that length it succeeds and the buffer then equals the
\* values, element by element.
C7_SetSlice ==
    [][(op' = "setSlice" /\ nops' = nops + 1)
       => IF Len(arg') # Span(shape)
          THEN aerr' = "LengthMismatch" /\ values' = values /\ shape' = shape
          ELSE aerr' = "ok" /\ values' = arg' /\ shape' = shape]_vars

\* setSlice has replaced a buffer of several elements by other values
C7_Witness ==
    /\ op = "setSlice"
    /\ aerr = "ok"
    /\ Len(values) >= 6
    /\ values = arg
    /\ values[1] # values[2]

\* C8: for a matrix or tensor (buffer as long as its span), transposing
\* moves the element (t, i, j) of every batch t to (t, j, i) under the shape
\* with the last two axes swapped, and transposing twice gives back the
\* shape and the buffer.
C8_TransposeTwice ==
    (~NoArray /\ Len(shape) >= 2 /\ Len(values) = Span(shape))
    => LET r == Len(shape)
           rows == shape[r - 1]
           cols == shape[r]
           d1 == TransposeDims(shape)
           v1 == TransposeValues(shape, values)
       IN /\ d1 = [shape EXCEPT ![r - 1] = cols, ![r] = rows]
          /\ \A t \in 0..(Span(BatchDims(shape)) - 1), i \in 0..(rows - 1),
                j \in 0..(cols - 1) :
                v1[t * rows * cols + j * rows + i + 1]
                    = values[t * rows * cols + i * cols + j + 1]
          /\ TransposeDims(d1) = shape
          /\ TransposeValues(d1, v1) = values

\* a tensor of several non-square batches with differing content is the
\* result of a transposition
C8_Witness ==
    /\ op = "transpose"
    /\ aerr = "ok"
    /\ Len(shape) >= 3
    /\ shape[1] > 1
    /\ shape[Len(shape)] # shape[Len(shape) - 1]
    /\ \E p \in 1..(shape[2] * shape[3]) :
          values[p] # values[p + shape[2] * shape[3]]
    /\ values # TransposeValues(TransposeDims(shape), values)

\* cell (i, j) of the product of the matrix (or row vector) in values with
\* the batch slice t of the tensor in bvalues, summed over the first l terms
RECURSIVE SliceDot(_, _, _, _)
SliceDot(t, i, j, l) ==
    IF l = 0 THEN 0
    ELSE SliceDot(t, i, j, l - 1)
         + values[i * bshape[2] + l]
           * bvalues[t * bshape[2] * bshape[3] + (l - 1) * bshape[3] + j + 1]

\* C9: the product of a matrix A (M x K) and a tensor B (b x K x N) is the
\* tensor b x M x N whose slice t is A times B[t]; the product of a vector a
\* (K) and such a tensor is the matrix b x N whose row t is a times B[t].
C9_MatmulBroadcast ==
    (op = "matmul" /\ Len(bshape) = 3 /\ Len(shape) \in {1, 2}
        /\ LeftK(shape) = bshape[2])
    => /\ aerr = "ok"
       /\ IF Len(shape) = 2
          THEN /\ cshape = <<bshape[1], shape[1], bshape[3]>>
               /\ Len(cvalues) = bshape[1] * shape[1] * bshape[3]
               /\ \A t \in 0..(bshape[1] - 1), i \in 0..(shape[1] - 1),
                     j \in 0..(bshape[3] - 1) :
                     cvalues[(t * shape[1] + i) * bshape[3] + j + 1]
                         = SliceDot(t, i, j, bshape[2])
          ELSE /\ cshape = <<bshape[1], bshape[3]>>
               /\ Len(cvalues) = bshape[1] * bshape[3]
               /\ \A t \in 0..(bshape[1] - 1), j \in 0..(bshape[3] - 1) :
                     cvalues[t * bshape[3] + j + 1]
                         = SliceDot(t, 0, j, bshape[2])

\* a matrix has been multiplied with a tensor of two batches, and the two
\* output slices differ
C9_Witness ==
    /\ op = "matmul"
    /\ aerr = "ok"
    /\ Len(shape) = 2
    /\ Len(bshape) = 3
    /\ shape[1] > 1
    /\ bshape[1] > 1
    /\ bshape[2] > 1
    /\ cshape = <<bshape[1], shape[1], bshape[3]>>
    /\ cvalues[1] # cvalues[shape[1] * bshape[3] + 1]

\* C11: when the second of two calls with the same M, K, N, A, B returns Ok
\* on the buffer the first call returned Ok on (which at its entry held the
\* first call's result and not the content the first call found), the
\* elements out[0 .. M*N) are the same after both calls.
C11_ResultIgnoresStaleOut ==
    (Finished /\ calls = 2 /\ result = "Ok" /\ Len(earlier) = Len(out))
    => SubSeq(out, 1, m * n) = SubSeq(earlier, 1, m * n)

\* the second call returned Ok on a buffer with GPU tiles and both bands,
\* whose content at entry differed from the content the first call found
C11_Witness ==
    /\ Finished
    /\ calls = 2
    /\ result = "Ok"
    /\ Len(earlier) = Len(out)
    /\ m > LOCAL_SIZE_X
    /\ n > LOCAL_SIZE_Y
    /\ k > 0
    /\ stale = earlier
    /\ stale # Fill(Len(out), 7)
    /\ out[1] # 0
    /\ out[1] # 7

\* the pipeline instances held by the calls and used by the dispatches
Handles == {inst, pinst} \cup {used[c] : c \in Chunks}

\* C12: at most one pipeline is ever built, also when two calls dereference
\* the static at the same time; every call that holds a pipeline and every
\* chunk that has dispatched holds that one instance; and once the static is
\* initialised it is never initialised again nor changed.
C12_PipelineBuiltOnce ==
    /\ [](/\ builds <= 1
          /\ \A h \in Handles : h \in {0, 1}
          /\ \A c \in Chunks : cpc[c] \notin {"start", "panic"} => used[c] = 1
          /\ pipe = "ready" => builds = 1)
    /\ [][pipe = "ready" => (pipe' = "ready" /\ builds' = builds)]_vars

\* the other thread waited while this call ran the initialiser, and both
\* chunks of this call have dispatched on the instance the other thread holds
C12_Witness ==
    /\ Split
    /\ Cardinality(Chunks) = 2
    /\ \A c \in Chunks : cpc[c] = "done" /\ used[c] = pinst
    /\ ppc = "woken"
    /\ pinst = 1
    /\ inst = 1
    /\ builds = 1
    /\ calls = 2

\* C13: in a call whose slices satisfy the three length preconditions, no
\* read of the CPU remainder loops through at() has gone outside the slice
\* it was given (A: i*K+l below the length of the chunk's slice of in0; B:
\* l*N+j below the length of in1), and the slice of in0 of every chunk of
\* the call starts within in0.
C13_ReadsStayInside ==
    (LengthsOk /\ pc = "running")
    => /\ ~oob
       /\ (k > 0 /\ n > 0) => (k - 1) * n + (n - 1) < Len(in1)
       /\ \A c \in Chunks : In0Start(c - 1) <= Len(in0)

\* C14: when a call with M at most the row-split threshold has returned Ok
\* on an output buffer longer than M*N, every element out[p], p >= M*N,
\* holds the value it held when the call was entered.
C14_TailUntouched ==
    (Finished /\ result = "Ok" /\ ~Split /\ Len(out) > m * n)
    => \A p \in (m * n + 1)..Len(out) : out[p] = stale[p]

====
